---- MODULE Spec2Model ----
(***************************************************************************)
(* Model of tools/hiddenapi/generate_hiddenapi_lists.py: the merge of      *)
(* public/private API lists, CSV files and per-tag text files into one     *)
(* dictionary  api signature -> set of tags,  and its serialization.       *)
(*                                                                         *)
(* A Python str is a sequence of one-character strings, so startswith,     *)
(* strip, split, join, the regular expression and the lexicographic order  *)
(* are computed character by character.  A Python set is a set, a list a   *)
(* sequence, a dict a function from its keys.  The program is Python 2     *)
(* (it calls the builtin reduce): map and filter are evaluated at once.    *)
(***************************************************************************)
EXTENDS Integers, Sequences, FiniteSets, TLC

VARIABLES
    pc,            \* position of main(): the statement executed last
    tagi,          \* index in TAGS of the tag of the running loop over TAGS
    nfiles,        \* file names of the command line consumed by the loops so far
    public,        \* main's local `public`  (a dict)
    private,       \* main's local `private` (a dict)
    entries_dict,  \* main's local `entries_dict`, or the dict a test operates on
    call,          \* the last call made on entries_dict: function, arguments, outcome
    passes,        \* the passes main() has run so far, in order
    output,        \* the lines written to args["output"], or returned by generate_csv
    args,          \* a command line given as a whole: its file options, in order
    todo,          \* the options of args that were not applied yet
    before,        \* inactive.py: the text of an OWNERS file (filter_inactive's raw)
    active_ldaps,  \* inactive.py: the ldaps that are active
    after          \* inactive.py: what filter_inactive returned

vars ==
    <<pc, tagi, nfiles, public, private, entries_dict, call, passes, output,
      args, todo, before, active_ldaps, after>>

\* the variables of a command line given as a whole
args_vars == <<args, todo>>

\* the variables of inactive.py
owners_vars == <<before, active_ldaps, after>>

\* no command line was given as a whole
NoArgs == args = <<>> /\ todo = {}

\* no OWNERS file is being filtered
NoOwners == before = <<>> /\ active_ldaps = {} /\ after = <<>>

----------------------------------------------------------------------------
(* Bounds of the model *)

\* lines of a text file
MaxLines == 2
\* lines of a CSV file
MaxRows == 2
\* files named on one command line (all options together)
MaxFiles == 2

----------------------------------------------------------------------------
(* Strings *)

Range(s) == {s[i] : i \in 1..Len(s)}

\* str.startswith
StartsWith(s, p) == Len(s) >= Len(p) /\ SubSeq(s, 1, Len(p)) = p

\* str.endswith
EndsWith(s, p) == Len(s) >= Len(p) /\ SubSeq(s, Len(s) - Len(p) + 1, Len(s)) = p

\* the characters str.strip() removes (\x0b has no TLA+ literal)
Whitespace == {" ", "\t", "\n", "\r", "\f"}

RECURSIVE LStrip(_)
LStrip(s) == IF s # <<>> /\ Head(s) \in Whitespace THEN LStrip(Tail(s)) ELSE s

RECURSIVE RStrip(_)
RStrip(s) ==
    IF s # <<>> /\ s[Len(s)] \in Whitespace THEN RStrip(SubSeq(s, 1, Len(s) - 1)) ELSE s

\* str.strip()
Strip(s) == RStrip(LStrip(s))

\* str.split(','): the fields between the commas; the empty string gives ['']
RECURSIVE SplitFrom(_, _)
SplitFrom(s, field) ==
    IF s = <<>> THEN <<field>>
    ELSE IF Head(s) = "," THEN <<field>> \o SplitFrom(Tail(s), <<>>)
    ELSE SplitFrom(Tail(s), Append(field, Head(s)))

Split(s) == SplitFrom(s, <<>>)

\* printable ASCII in code point order: 32..95, and 97..126 (96, the backquote,
\* has no TLA+ string literal and occurs in no input of the model)
AsciiLow ==
    <<" ", "!", "\"", "#", "$", "%", "&", "'", "(", ")", "*", "+", ",", "-", ".", "/",
      "0", "1", "2", "3", "4", "5", "6", "7", "8", "9", ":", ";", "<", "=", ">", "?",
      "@", "A", "B", "C", "D", "E", "F", "G", "H", "I", "J", "K", "L", "M", "N", "O",
      "P", "Q", "R", "S", "T", "U", "V", "W", "X", "Y", "Z", "[", "\\", "]", "^", "_">>

AsciiHigh ==
    <<"a", "b", "c", "d", "e", "f", "g", "h", "i", "j", "k", "l", "m", "n", "o",
      "p", "q", "r", "s", "t", "u", "v", "w", "x", "y", "z", "{", "|", "}", "~">>

\* ord(c)
Ord(c) ==
    IF c = "\n" THEN 10
    ELSE IF c = "\t" THEN 9
    ELSE IF c \in Range(AsciiLow) THEN 31 + (CHOOSE i \in 1..Len(AsciiLow) : AsciiLow[i] = c)
    ELSE 96 + (CHOOSE i \in 1..Len(AsciiHigh) : AsciiHigh[i] = c)

\* s < t for Python 2 str: code point by code point, a proper prefix first
RECURSIVE StrLess(_, _)
StrLess(s, t) ==
    IF t = <<>> THEN FALSE
    ELSE IF s = <<>> THEN TRUE
    ELSE IF Head(s) = Head(t) THEN StrLess(Tail(s), Tail(t))
    ELSE Ord(Head(s)) < Ord(Head(t))

\* one element into a sorted list, after the elements that are not greater
RECURSIVE Insert(_, _)
Insert(x, l) ==
    IF l = <<>> THEN <<x>>
    ELSE IF StrLess(x, Head(l)) THEN <<x>> \o l
    ELSE <<Head(l)>> \o Insert(x, Tail(l))

\* sorted(l) for a list of strings
RECURSIVE Sorted(_)
Sorted(l) == IF l = <<>> THEN <<>> ELSE Insert(Head(l), Sorted(Tail(l)))

\* the elements of a set or of a dict's keys as a list, in the order the iteration
\* happens to take (every result below is independent of that order)
RECURSIVE ListOf(_)
ListOf(S) ==
    IF S = {} THEN <<>>
    ELSE LET x == CHOOSE y \in S : TRUE IN <<x>> \o ListOf(S \ {x})

\* sep.join(l)
RECURSIVE Join(_, _)
Join(sep, l) ==
    IF l = <<>> THEN <<>>
    ELSE IF Len(l) = 1 THEN Head(l)
    ELSE Head(l) \o sep \o Join(sep, Tail(l))

----------------------------------------------------------------------------
(* Constants of the program *)

TAG_WHITELIST == <<"w", "h", "i", "t", "e", "l", "i", "s", "t">>
TAG_GREYLIST == <<"g", "r", "e", "y", "l", "i", "s", "t">>
TAG_BLACKLIST == <<"b", "l", "a", "c", "k", "l", "i", "s", "t">>
TAG_GREYLIST_MAX_O == <<"g", "r", "e", "y", "l", "i", "s", "t", "-", "m", "a", "x", "-", "o">>
TAG_GREYLIST_MAX_P == <<"g", "r", "e", "y", "l", "i", "s", "t", "-", "m", "a", "x", "-", "p">>

TAGS == <<TAG_WHITELIST, TAG_GREYLIST, TAG_BLACKLIST, TAG_GREYLIST_MAX_O, TAG_GREYLIST_MAX_P>>

\* the patterns, with the regex escapes \( \) \[ read as the literal characters
SERIALIZATION_PATTERNS ==
    { <<"r", "e", "a", "d", "O", "b", "j", "e", "c", "t", "(", "L", "j", "a", "v", "a",
        "/", "i", "o", "/", "O", "b", "j", "e", "c", "t", "I", "n", "p", "u", "t", "S",
        "t", "r", "e", "a", "m", ";", ")", "V">>,
      <<"r", "e", "a", "d", "O", "b", "j", "e", "c", "t", "N", "o", "D", "a", "t", "a",
        "(", ")", "V">>,
      <<"r", "e", "a", "d", "R", "e", "s", "o", "l", "v", "e", "(", ")", "L", "j", "a",
        "v", "a", "/", "l", "a", "n", "g", "/", "O", "b", "j", "e", "c", "t", ";">>,
      <<"s", "e", "r", "i", "a", "l", "V", "e", "r", "s", "i", "o", "n", "U", "I", "D",
        ":", "J">>,
      <<"s", "e", "r", "i", "a", "l", "P", "e", "r", "s", "i", "s", "t", "e", "n", "t",
        "F", "i", "e", "l", "d", "s", ":", "[", "L", "j", "a", "v", "a", "/", "i", "o",
        "/", "O", "b", "j", "e", "c", "t", "S", "t", "r", "e", "a", "m", "F", "i", "e",
        "l", "d", ";">>,
      <<"w", "r", "i", "t", "e", "O", "b", "j", "e", "c", "t", "(", "L", "j", "a", "v",
        "a", "/", "i", "o", "/", "O", "b", "j", "e", "c", "t", "O", "u", "t", "p", "u",
        "t", "S", "t", "r", "e", "a", "m", ";", ")", "V">>,
      <<"w", "r", "i", "t", "e", "R", "e", "p", "l", "a", "c", "e", "(", ")", "L", "j",
        "a", "v", "a", "/", "l", "a", "n", "g", "/", "O", "b", "j", "e", "c", "t", ";">> }

\* SERIALIZATION_REGEX.match(api):  .*->(p1|...|p7)$  anchored at the start;
\* a dot matches no newline, $ matches at the end or before one final newline
SERIALIZATION_REGEX(api) ==
    \E p \in SERIALIZATION_PATTERNS :
        \E tail \in {<<>>, <<"\n">>} :
            LET suffix == <<"-", ">">> \o p \o tail
            IN  /\ EndsWith(api, suffix)
                /\ "\n" \notin Range(SubSeq(api, 1, Len(api) - Len(suffix)))

\* IS_UNASSIGNED written as a test for None: a set is never None
IS_UNASSIGNED_is_none(api, tags) == FALSE

IS_UNASSIGNED(api, tags) == tags = {}

\* IS_SERIALIZATION with a regex that lacks the leading .* (match is anchored at
\* the start of the signature)
IS_SERIALIZATION_from_start(api, tags) ==
    \E p \in SERIALIZATION_PATTERNS : \E tail \in {<<>>, <<"\n">>} :
        api = <<"-", ">">> \o p \o tail

IS_SERIALIZATION(api, tags) == SERIALIZATION_REGEX(api)

----------------------------------------------------------------------------
(* Functions of the program.  A function that may raise returns the record  *)
(* [err, d]: err names the check whose assertion failed (NoError if none),  *)
(* d is entries_dict as the call leaves it.                                 *)

NoError == "none"

\* read_lines(filename): the file as its list of raw lines
read_lines(file) ==
    LET kept == SelectSeq(file, LAMBDA line : ~StartsWith(line, <<"#">>))
    IN  [i \in 1..Len(kept) |-> Strip(kept[i])]

\* check_entries_set: TRUE iff the assertion passes
check_entries_set(keys_subset, entries_dict_) ==
    LET keys_all == DOMAIN entries_dict_
    IN  keys_subset \subseteq keys_all

\* check_tags_set asserting only that some tag of a non-empty collection is known
check_tags_set_any_known(tags_subset) ==
    tags_subset = {} \/ tags_subset \cap Range(TAGS) # {}

\* check_tags_set: TRUE iff the assertion passes
check_tags_set(tags_subset) == tags_subset \subseteq Range(TAGS)

\* filter_fn(key, value) for the two predicates main passes, given by name
Apply(filter_fn, api, tags) ==
    IF filter_fn = "IS_UNASSIGNED" THEN IS_UNASSIGNED(api, tags) ELSE IS_SERIALIZATION(api, tags)

\* filter_dict_keys: the keys whose (key, value) satisfies filter_fn
filter_dict_keys(filter_fn, entries_dict_) ==
    {x \in DOMAIN entries_dict_ : Apply(filter_fn, x, entries_dict_[x])}

\* merge_two_disjoint_dicts without z.update(y)
merge_two_disjoint_dicts_no_update(x, y) ==
    IF (DOMAIN x) \cap (DOMAIN y) # {}
    THEN [err |-> "merge_two_disjoint_dicts", d |-> <<>>]
    ELSE [err |-> NoError, d |-> x]

\* merge_two_disjoint_dicts without its assertion
merge_two_disjoint_dicts_no_assert(x, y) ==
    [err |-> NoError,
     d |-> [k \in (DOMAIN x) \cup (DOMAIN y) |-> IF k \in DOMAIN y THEN y[k] ELSE x[k]]]

\* merge_two_disjoint_dicts
merge_two_disjoint_dicts(x, y) ==
    IF (DOMAIN x) \cap (DOMAIN y) # {}
    THEN [err |-> "merge_two_disjoint_dicts", d |-> <<>>]
    ELSE [err |-> NoError,
          d |-> [k \in (DOMAIN x) \cup (DOMAIN y) |-> IF k \in DOMAIN y THEN y[k] ELSE x[k]]]

\* get_valid_subset_of_unassigned_keys intersecting with all the keys
get_valid_subset_of_any_keys(entries_subset, entries_dict_) ==
    entries_subset \cap DOMAIN entries_dict_

\* get_valid_subset_of_unassigned_keys
get_valid_subset_of_unassigned_keys(entries_subset, entries_dict_) ==
    LET unassigned_keys == filter_dict_keys("IS_UNASSIGNED", entries_dict_)
    IN  entries_subset \cap unassigned_keys

\* generate_csv sorting the entries and writing their lines in that order
generate_csv_sorted_keys(entries_dict_) ==
    LET keys == Sorted(ListOf(DOMAIN entries_dict_))
        line(api) == Join(<<",">>, <<api>> \o Sorted(ListOf(entries_dict_[api]))) \o <<"\n">>
    IN  [i \in 1..Len(keys) |-> line(keys[i])]

\* generate_csv
generate_csv(entries_dict_) ==
    LET keys == ListOf(DOMAIN entries_dict_)
        line(api) == Join(<<",">>, <<api>> \o Sorted(ListOf(entries_dict_[api]))) \o <<"\n">>
    IN  Sorted([i \in 1..Len(keys) |-> line(keys[i])])

\* the last statement of parse_csv assigning the tags of a row instead of adding them
RECURSIVE UpdateRows_overwrites(_, _)
UpdateRows_overwrites(csv_values, entries_dict_) ==
    IF csv_values = <<>> THEN entries_dict_
    ELSE LET csv == Head(csv_values)
         IN  UpdateRows_overwrites(Tail(csv_values),
                                   [entries_dict_ EXCEPT ![csv[1]] = Range(Tail(csv))])

\* the last statement of parse_csv: entries_dict[csv[0]].update(csv[1:]) row by row
RECURSIVE UpdateRows(_, _)
UpdateRows(csv_values, entries_dict_) ==
    IF csv_values = <<>> THEN entries_dict_
    ELSE LET csv == Head(csv_values)
         IN  UpdateRows(Tail(csv_values),
                        [entries_dict_ EXCEPT ![csv[1]] = @ \cup Range(Tail(csv))])

\* parse_csv checking and applying one row after the other
RECURSIVE RowByRow(_, _)
RowByRow(csv_values, entries_dict_) ==
    IF csv_values = <<>> THEN [err |-> NoError, d |-> entries_dict_]
    ELSE LET csv == Head(csv_values)
         IN  IF ~check_entries_set({csv[1]}, entries_dict_)
             THEN [err |-> "check_entries_set", d |-> entries_dict_]
             ELSE IF ~check_tags_set(Range(Tail(csv)))
             THEN [err |-> "check_tags_set", d |-> entries_dict_]
             ELSE RowByRow(Tail(csv_values),
                           [entries_dict_ EXCEPT ![csv[1]] = @ \cup Range(Tail(csv))])

parse_csv_row_by_row(csv_lines, entries_dict_) ==
    RowByRow([i \in 1..Len(csv_lines) |-> Split(csv_lines[i])], entries_dict_)

\* parse_csv
parse_csv(csv_lines, entries_dict_) ==
    LET csv_values == [i \in 1..Len(csv_lines) |-> Split(csv_lines[i])]
        csv_keys == {csv_values[i][1] : i \in 1..Len(csv_values)}
        csv_tags == UNION {Range(Tail(csv_values[i])) : i \in 1..Len(csv_values)}
    IN  IF ~check_entries_set(csv_keys, entries_dict_)
        THEN [err |-> "check_entries_set", d |-> entries_dict_]
        ELSE IF ~check_tags_set(csv_tags)
        THEN [err |-> "check_tags_set", d |-> entries_dict_]
        ELSE [err |-> NoError, d |-> UpdateRows(csv_values, entries_dict_)]

\* assign_tag tagging the entries it finds before it checks them
assign_tag_before_check(tag, entries_subset, entries_dict_) ==
    LET tagged == [api \in DOMAIN entries_dict_ |->
                      IF api \in entries_subset THEN entries_dict_[api] \cup {tag}
                      ELSE entries_dict_[api]]
    IN  IF ~check_entries_set(entries_subset, entries_dict_)
        THEN [err |-> "check_entries_set", d |-> tagged]
        ELSE IF ~check_tags_set({tag})
        THEN [err |-> "check_tags_set", d |-> tagged]
        ELSE [err |-> NoError, d |-> tagged]

\* assign_tag replacing the tags of an entry by the tag
assign_tag_replaces(tag, entries_subset, entries_dict_) ==
    IF ~check_entries_set(entries_subset, entries_dict_)
    THEN [err |-> "check_entries_set", d |-> entries_dict_]
    ELSE IF ~check_tags_set({tag})
    THEN [err |-> "check_tags_set", d |-> entries_dict_]
    ELSE [err |-> NoError,
          d |-> [api \in DOMAIN entries_dict_ |->
                    IF api \in entries_subset THEN {tag} ELSE entries_dict_[api]]]

\* assign_tag taking the tag away from an entry that holds it
assign_tag_toggles(tag, entries_subset, entries_dict_) ==
    IF ~check_entries_set(entries_subset, entries_dict_)
    THEN [err |-> "check_entries_set", d |-> entries_dict_]
    ELSE IF ~check_tags_set({tag})
    THEN [err |-> "check_tags_set", d |-> entries_dict_]
    ELSE [err |-> NoError,
          d |-> [api \in DOMAIN entries_dict_ |->
                    IF api \notin entries_subset THEN entries_dict_[api]
                    ELSE IF tag \in entries_dict_[api] THEN entries_dict_[api] \ {tag}
                    ELSE entries_dict_[api] \cup {tag}]]

\* assign_tag; entries_subset is the set of the elements of the list or set passed
assign_tag(tag, entries_subset, entries_dict_) ==
    IF ~check_entries_set(entries_subset, entries_dict_)
    THEN [err |-> "check_entries_set", d |-> entries_dict_]
    ELSE IF ~check_tags_set({tag})
    THEN [err |-> "check_tags_set", d |-> entries_dict_]
    ELSE [err |-> NoError,
          d |-> [api \in DOMAIN entries_dict_ |->
                    IF api \in entries_subset THEN entries_dict_[api] \cup {tag}
                    ELSE entries_dict_[api]]]

\* the ignore-conflicts loop adding the entries it does not find, with the tag
assign_tag_ignore_conflicts_inserts(tag, entries_subset, entries_dict_) ==
    [err |-> NoError,
     d |-> [api \in (DOMAIN entries_dict_) \cup entries_subset |->
              IF api \notin DOMAIN entries_dict_ THEN {tag}
              ELSE IF api \in entries_subset /\ entries_dict_[api] = {} THEN {tag}
              ELSE entries_dict_[api]]]

\* the body of main's ignore-conflicts loop
assign_tag_ignore_conflicts(tag, entries_subset, entries_dict_) ==
    LET valid_entries == get_valid_subset_of_unassigned_keys(entries_subset, entries_dict_)
    IN  assign_tag(tag, valid_entries, entries_dict_)

----------------------------------------------------------------------------
(* Inputs *)

\* signatures that occur in the input files; S matches SERIALIZATION_REGEX
SigA == <<"A">>
SigB == <<"B">>
SigS == <<"S", "-", ">", "s", "e", "r", "i", "a", "l", "V", "e", "r", "s", "i", "o", "n",
          "U", "I", "D", ":", "J">>

Signatures == {SigA, SigB, SigS}

\* a tag no registry holds
TagFoo == <<"f", "o", "o">>

\* the raw lines a text file may hold: a signature and its newline, or a comment
TextLines == {sig \o <<"\n">> : sig \in Signatures} \cup {<<"#">> \o SigA \o <<"\n">>}

\* the files of at most n different lines of S, the lines in sorted order
FilesOf(S, n) == {Sorted(ListOf(T)) : T \in {U \in SUBSET S : Cardinality(U) <= n}}

\* the text files (main uses a text file's lines only as dict keys or through set
\* operations, so neither the order of the lines nor a repeated line changes a result)
TextFiles == FilesOf(TextLines, MaxLines)

\* the raw lines a CSV file may hold
CsvLines ==
    { SigA \o <<"\n">>,
      SigA \o <<",">> \o TAG_GREYLIST \o <<"\n">>,
      SigB \o <<",">> \o TAG_BLACKLIST \o <<",">> \o TAG_GREYLIST \o <<"\n">>,
      SigS \o <<",">> \o TAG_GREYLIST \o <<"\n">>,
      SigB \o <<",">> \o TagFoo \o <<"\n">>,
      SigA \o <<",", "\n">> }

\* the CSV files; in sorted order a row with a known entry and known tags comes
\* before and after a row with an unknown tag, and before a row with an unknown entry
CsvFiles == FilesOf(CsvLines, MaxRows)

\* the tags a direct call of assign_tag is offered
OfferedTags == {TAG_WHITELIST, TAG_GREYLIST, TAG_BLACKLIST, TagFoo}

----------------------------------------------------------------------------
(* main() *)

\* The command line is read as main() consumes it: a loop over the files of an
\* option either finds one more file name, while fewer than MaxFiles files were
\* named so far, or ends.  pc names the statement main() executed last, tagi the
\* index in TAGS of the tag of that statement's loop.

NoCall ==
    [fn |-> "none", tag |-> <<>>, entries |-> {}, lines |-> <<>>, err |-> NoError,
     changed |-> {}]

\* the record of a call fn(tag, entries or lines, entries_dict) that returned r:
\* its arguments, the check that failed, and the keys whose value it changed
Called(fn, tag, entries, lines, r) ==
    [fn |-> fn, tag |-> tag, entries |-> entries, lines |-> lines, err |-> r.err,
     changed |-> {k \in (DOMAIN entries_dict) \cup (DOMAIN r.d) :
                     \/ k \notin (DOMAIN entries_dict) \cap (DOMAIN r.d)
                     \/ r.d[k] # entries_dict[k]}]

Init ==
    /\ pc = "start"
    /\ tagi = 0
    /\ nfiles = 0
    /\ public = <<>>
    /\ private = <<>>
    /\ entries_dict = <<>>
    /\ call = NoCall
    /\ passes = <<>>
    /\ output = <<>>
    /\ NoArgs
    /\ NoOwners

\* main, lines 275-281
Bootstrap ==
    /\ pc = "start"
    /\ \E pub \in TextFiles, priv \in TextFiles :
          LET x == [k \in Range(read_lines(pub)) |-> {TAG_WHITELIST}]
              y == [k \in Range(read_lines(priv)) |-> {}]
              r == merge_two_disjoint_dicts(x, y)
          IN  /\ public' = x
              /\ private' = y
              /\ entries_dict' = r.d
              /\ call' = [NoCall EXCEPT !.fn = "merge_two_disjoint_dicts", !.err = r.err]
              /\ pc' = IF r.err = NoError THEN "bootstrap" ELSE "failed"
    /\ UNCHANGED <<tagi, nfiles, passes, output, args_vars, owners_vars>>

\* main() with the ignore-conflicts loop before the loop of the strict files
Statements_ignore_conflicts_first ==
    <<"serialization", "csv", "ignore-conflicts", "tag", "remaining", "write">>

\* main() assigning the blacklist tag to the unassigned entries before the
\* ignore-conflicts loop
Statements_remaining_early ==
    <<"serialization", "csv", "tag", "remaining", "ignore-conflicts", "write">>

\* the statements of main() after the bootstrap, in program order
Statements == <<"serialization", "csv", "tag", "ignore-conflicts", "remaining", "write">>

Position(stmt) == CHOOSE i \in 1..Len(Statements) : Statements[i] = stmt

\* main() can execute stmt, for the tag TAGS[t] when stmt is a loop over TAGS,
\* next: stmt is not behind the statement executed last, a straight-line
\* statement is not repeated, and a loop over TAGS does not go back in TAGS
Reaches(stmt, t) ==
    /\ pc \in {"bootstrap"} \cup Range(Statements)
    /\ IF pc = "bootstrap" THEN stmt = "serialization"
       ELSE \/ Position(stmt) = Position(pc) + 1
            \/ /\ Position(stmt) > Position(pc)
               /\ {Statements[i] : i \in Position(pc) + 1 .. Position(stmt) - 1}
                     \subseteq {"csv", "tag", "ignore-conflicts"}
            \/ /\ stmt = pc
               /\ stmt \in {"csv", "tag", "ignore-conflicts"}
               /\ stmt = "csv" \/ t >= tagi

\* a pass whose failed assertion does not end main()
Finish_ignores_error(stmt, t, r) ==
    /\ entries_dict' = r.d
    /\ passes' = Append(passes, stmt)
    /\ pc' = stmt
    /\ tagi' = t
    /\ UNCHANGED <<public, private, output, args_vars, owners_vars>>

\* what a pass that called assign_tag or parse_csv with result r leaves behind
Finish(stmt, t, r) ==
    /\ entries_dict' = r.d
    /\ passes' = Append(passes, stmt)
    /\ pc' = IF r.err = NoError THEN stmt ELSE "failed"
    /\ tagi' = t
    /\ UNCHANGED <<public, private, output, args_vars, owners_vars>>

\* main, line 285
AssignSerialization ==
    /\ Reaches("serialization", 0)
    /\ LET entries == filter_dict_keys("IS_SERIALIZATION", entries_dict)
           r == assign_tag(TAG_WHITELIST, entries, entries_dict)
       IN  /\ call' = Called("assign_tag", TAG_WHITELIST, entries, <<>>, r)
           /\ Finish("serialization", 0, r)
    /\ UNCHANGED nfiles

\* main, lines 287-288: one file of --csv
MergeCsv ==
    /\ Reaches("csv", 0)
    /\ nfiles < MaxFiles
    /\ nfiles' = nfiles + 1
    /\ \E file \in CsvFiles :
          LET lines == read_lines(file)
              r == parse_csv(lines, entries_dict)
          IN  /\ call' = Called("parse_csv", <<>>, {}, lines, r)
              /\ Finish("csv", 0, r)

\* main, lines 290-292: one file of --<tag>
AssignTagFile ==
    \E t \in 1..Len(TAGS) :
        /\ Reaches("tag", t)
        /\ nfiles < MaxFiles
        /\ nfiles' = nfiles + 1
        /\ \E file \in TextFiles :
              LET entries == Range(read_lines(file))
                  r == assign_tag(TAGS[t], entries, entries_dict)
              IN  /\ call' = Called("assign_tag", TAGS[t], entries, <<>>, r)
                  /\ Finish("tag", t, r)

\* main, lines 299-302: one file of --<tag>-ignore-conflicts
AssignIgnoreConflictsFile ==
    \E t \in 1..Len(TAGS) :
        /\ Reaches("ignore-conflicts", t)
        /\ nfiles < MaxFiles
        /\ nfiles' = nfiles + 1
        /\ \E file \in TextFiles :
              LET entries == Range(read_lines(file))
                  r == assign_tag_ignore_conflicts(TAGS[t], entries, entries_dict)
              IN  /\ call' = Called("assign_tag_ignore_conflicts", TAGS[t], entries, <<>>, r)
                  /\ Finish("ignore-conflicts", t, r)

\* main, line 305
AssignRemaining ==
    /\ Reaches("remaining", 0)
    /\ LET entries == filter_dict_keys("IS_UNASSIGNED", entries_dict)
           r == assign_tag(TAG_BLACKLIST, entries, entries_dict)
       IN  /\ call' = Called("assign_tag", TAG_BLACKLIST, entries, <<>>, r)
           /\ Finish("remaining", 0, r)
    /\ UNCHANGED nfiles

\* main, line 308
WriteOutput ==
    /\ Reaches("write", 0)
    /\ output' = Append(output, generate_csv(entries_dict))
    /\ passes' = Append(passes, "write")
    /\ call' = NoCall
    /\ pc' = "write"
    /\ UNCHANGED <<tagi, nfiles, public, private, entries_dict, args_vars, owners_vars>>

Next ==
    \/ Bootstrap
    \/ AssignSerialization
    \/ MergeCsv
    \/ AssignTagFile
    \/ AssignIgnoreConflictsFile
    \/ AssignRemaining
    \/ WriteOutput

Spec == Init /\ [][Next]_vars

----------------------------------------------------------------------------
(* The functions called directly, as the unit tests call them: on a dict of  *)
(* signatures with no tag or with the whitelist tag, in any order, each call *)
(* with any of the offered arguments; a call that raises leaves the dict to  *)
(* the next call.                                                            *)

\* the keys of the dicts of the tests; SigS is in none of them
TestKeys == {SigA, SigB}

InitTest ==
    /\ pc = "test"
    /\ tagi = 0
    /\ nfiles = 0
    /\ public = <<>>
    /\ private = <<>>
    /\ \E keys \in SUBSET TestKeys : entries_dict \in [keys -> {{}, {TAG_WHITELIST}}]
    /\ call = NoCall
    /\ passes = <<>>
    /\ output = <<>>
    /\ NoArgs
    /\ NoOwners

\* the entry lists a direct call is offered
EntryLists == SUBSET Signatures

Returned(r) ==
    /\ pc = "test"
    /\ entries_dict' = r.d
    /\ UNCHANGED <<pc, tagi, nfiles, public, private, passes, output, args_vars, owners_vars>>

CallAssignTag ==
    \E tag \in OfferedTags, entries \in EntryLists :
        LET r == assign_tag(tag, entries, entries_dict)
        IN  /\ call' = Called("assign_tag", tag, entries, <<>>, r)
            /\ Returned(r)

CallAssignTagIgnoreConflicts ==
    \E tag \in OfferedTags, entries \in EntryLists :
        LET r == assign_tag_ignore_conflicts(tag, entries, entries_dict)
        IN  /\ call' = Called("assign_tag_ignore_conflicts", tag, entries, <<>>, r)
            /\ Returned(r)

CallParseCsv ==
    \E file \in CsvFiles :
        LET lines == read_lines(file)
            r == parse_csv(lines, entries_dict)
        IN  /\ call' = Called("parse_csv", <<>>, {}, lines, r)
            /\ Returned(r)

NextTest ==
    \/ CallAssignTag
    \/ CallAssignTagIgnoreConflicts
    \/ CallParseCsv

SpecTest == InitTest /\ [][NextTest]_vars

----------------------------------------------------------------------------
(* generate_csv called directly, as test_generate_csv calls it, on a dict of  *)
(* signatures of which one is a prefix of others.                            *)

\* a nested class of A ("$" sorts before ","), and a longer name ("B" sorts after ",")
SigA_B == <<"A", "$", "B">>
SigAB == <<"A", "B">>

CsvKeys == {SigA, SigA_B, SigAB, SigB}

CsvTags == {TAG_WHITELIST, TAG_GREYLIST, TAG_BLACKLIST}

InitCsv ==
    /\ pc = "generate_csv"
    /\ tagi = 0
    /\ nfiles = 0
    /\ public = <<>>
    /\ private = <<>>
    /\ \E keys \in SUBSET CsvKeys : entries_dict \in [keys -> SUBSET CsvTags]
    /\ call = NoCall
    /\ passes = <<>>
    /\ output = <<>>
    /\ NoArgs
    /\ NoOwners

CallGenerateCsv ==
    /\ pc = "generate_csv"
    /\ output = <<>>
    /\ output' = <<generate_csv(entries_dict)>>
    /\ UNCHANGED <<pc, tagi, nfiles, public, private, entries_dict, call, passes, args_vars, owners_vars>>

NextCsv == CallGenerateCsv

SpecCsv == InitCsv /\ [][NextCsv]_vars

----------------------------------------------------------------------------

(* main() on a command line given as a whole, its options applied in any     *)
(* order that keeps the strict passes before the ignore-conflicts passes and  *)
(* the ignore-conflicts passes in the order of TAGS, next to main() applying  *)
(* them in program order.                                                     *)

\* options of one command line
MaxArgs == 3

SigC == <<"C">>
SigD == <<"D">>

\* the index of tag in TAGS
TagIndex(tag) == CHOOSE i \in 1..Len(TAGS) : TAGS[i] = tag

\* one file named by --csv (t = 0), by --<TAGS[t]> or by --<TAGS[t]>-ignore-conflicts
Option(opt, t, file) == [opt |-> opt, t |-> t, file |-> file]

\* the raw line of a text file that names sig
Line(sig) == sig \o <<"\n">>

\* the files of the example: an empty whitelist file, a greylist file naming B, a
\* blacklist-ignore-conflicts file naming C and D, which is no entry
ExampleOptions ==
    { Option("tag", TagIndex(TAG_WHITELIST), <<>>),
      Option("tag", TagIndex(TAG_GREYLIST), <<Line(SigB)>>),
      Option("ignore-conflicts", TagIndex(TAG_BLACKLIST), <<Line(SigC), Line(SigD)>>) }

\* the options a command line may hold
ArgsOptions ==
    ExampleOptions \cup
    { Option("tag", TagIndex(TAG_BLACKLIST), <<Line(SigB), Line(SigC)>>),
      Option("tag", TagIndex(TAG_GREYLIST), <<Line(SigD)>>),
      Option("csv", 0, <<SigB \o <<",">> \o TAG_GREYLIST \o <<"\n">>>>),
      Option("csv", 0, <<SigA \o <<",">> \o TAG_BLACKLIST \o <<"\n">>,
                         SigC \o <<",">> \o TAG_WHITELIST \o <<"\n">>>>),
      Option("csv", 0, <<SigC \o <<",">> \o TagFoo \o <<"\n">>>>),
      Option("ignore-conflicts", TagIndex(TAG_GREYLIST), <<Line(SigC)>>),
      Option("ignore-conflicts", TagIndex(TAG_GREYLIST), <<Line(SigB), Line(SigS)>>),
      Option("ignore-conflicts", TagIndex(TAG_WHITELIST), <<Line(SigB)>>) }

\* the list l from its last element to its first
Reverse(l) == [i \in 1..Len(l) |-> l[Len(l) + 1 - i]]

\* the command lines: at most MaxArgs different options, in one order and in the
\* opposite order, so that any two options stand on a command line either way round
CommandLines ==
    UNION {{ListOf(S), Reverse(ListOf(S))} :
              S \in {T \in SUBSET ArgsOptions : Cardinality(T) <= MaxArgs}}

\* main, lines 287-302: the body of the loop that handles the option o
ApplyOption(o, entries_dict_) ==
    IF o.opt = "csv" THEN parse_csv(read_lines(o.file), entries_dict_)
    ELSE IF o.opt = "tag"
    THEN assign_tag(TAGS[o.t], Range(read_lines(o.file)), entries_dict_)
    ELSE assign_tag_ignore_conflicts(TAGS[o.t], Range(read_lines(o.file)), entries_dict_)

\* the options in a list, one after the other, up to the first that fails
RECURSIVE RunOptions(_, _)
RunOptions(opts, entries_dict_) ==
    IF opts = <<>> THEN [err |-> NoError, d |-> entries_dict_]
    ELSE LET r == ApplyOption(Head(opts), entries_dict_)
         IN  IF r.err # NoError THEN r ELSE RunOptions(Tail(opts), r.d)

\* for tag in TAGS: for filename in args[...]: the options opt of args_ from TAGS[t] on
RECURSIVE ByTag(_, _, _)
ByTag(opt, t, args_) ==
    IF t > Len(TAGS) THEN <<>>
    ELSE SelectSeq(args_, LAMBDA o : o.opt = opt /\ o.t = t) \o ByTag(opt, t + 1, args_)

\* the options of args_ in the order main() handles them
ProgramOrder(args_) ==
    SelectSeq(args_, LAMBDA o : o.opt = "csv")
        \o ByTag("tag", 1, args_) \o ByTag("ignore-conflicts", 1, args_)

\* main() from line 283 on, statement by statement: the error of the statement
\* that failed, and the lines written
main(entries_dict_, args_) ==
    LET serialization ==
            assign_tag(TAG_WHITELIST, filter_dict_keys("IS_SERIALIZATION", entries_dict_),
                       entries_dict_)
        r == RunOptions(ProgramOrder(args_), serialization.d)
        remaining == assign_tag(TAG_BLACKLIST, filter_dict_keys("IS_UNASSIGNED", r.d), r.d)
    IN  IF r.err # NoError THEN [err |-> r.err, out |-> <<>>]
        ELSE [err |-> NoError, out |-> <<generate_csv(remaining.d)>>]

\* after the bootstrap (lines 275-281) of disjoint public and private entries
InitArgs ==
    /\ pc = "bootstrap"
    /\ tagi = 0
    /\ nfiles = 0
    /\ \E pub \in {{}, {SigA}}, priv \in {{SigB, SigC}, {SigB, SigC, SigS}} :
          /\ public = [k \in pub |-> {TAG_WHITELIST}]
          /\ private = [k \in priv |-> {}]
          /\ entries_dict = merge_two_disjoint_dicts(public, private).d
    /\ call = NoCall
    /\ passes = <<>>
    /\ output = <<>>
    /\ args \in CommandLines
    /\ todo = 0..Len(args)
    /\ NoOwners

\* the statement that handles element i of todo: 0 is line 285
StatementOf(i) == IF i = 0 THEN "serialization" ELSE args[i].opt

\* a pass that handled element i of todo with result r
FinishArgs(i, r) ==
    /\ entries_dict' = r.d
    /\ todo' = todo \ {i}
    /\ passes' = Append(passes, StatementOf(i))
    /\ pc' = IF r.err = NoError THEN StatementOf(i) ELSE "failed"
    /\ tagi' = IF i = 0 THEN 0 ELSE args[i].t
    /\ UNCHANGED <<nfiles, public, private, output, args, owners_vars>>

\* main, lines 285-292 in any order: line 285, or one file of --csv or --<tag>
ApplyStrict ==
    /\ pc \notin {"failed", "remaining", "write"}
    /\ \E i \in todo :
          /\ i # 0 => args[i].opt \in {"csv", "tag"}
          /\ LET entries == filter_dict_keys("IS_SERIALIZATION", entries_dict)
                 r == IF i = 0 THEN assign_tag(TAG_WHITELIST, entries, entries_dict)
                      ELSE ApplyOption(args[i], entries_dict)
             IN  /\ call' = [NoCall EXCEPT !.fn = StatementOf(i), !.err = r.err]
                 /\ FinishArgs(i, r)

\* the ignore-conflicts files handled in any order instead of the order of TAGS
ApplyIgnoreConflicts_any_order ==
    /\ pc \notin {"failed", "remaining", "write"}
    /\ \A j \in todo : j # 0 /\ args[j].opt = "ignore-conflicts"
    /\ \E i \in todo :
          LET r == ApplyOption(args[i], entries_dict)
          IN  /\ call' = [NoCall EXCEPT !.fn = StatementOf(i), !.err = r.err]
              /\ FinishArgs(i, r)

\* main, lines 299-302: one file of --<tag>-ignore-conflicts, of the first tag of
\* TAGS that has such files left, once the statements before the loop are done
ApplyIgnoreConflicts ==
    /\ pc \notin {"failed", "remaining", "write"}
    /\ \A j \in todo : j # 0 /\ args[j].opt = "ignore-conflicts"
    /\ \E i \in todo :
          /\ \A j \in todo : args[i].t <= args[j].t
          /\ LET r == ApplyOption(args[i], entries_dict)
             IN  /\ call' = [NoCall EXCEPT !.fn = StatementOf(i), !.err = r.err]
                 /\ FinishArgs(i, r)

\* main, line 305
AssignRemainingArgs ==
    /\ pc \notin {"failed", "remaining", "write"}
    /\ todo = {}
    /\ LET entries == filter_dict_keys("IS_UNASSIGNED", entries_dict)
           r == assign_tag(TAG_BLACKLIST, entries, entries_dict)
       IN  /\ call' = Called("assign_tag", TAG_BLACKLIST, entries, <<>>, r)
           /\ entries_dict' = r.d
           /\ passes' = Append(passes, "remaining")
           /\ pc' = IF r.err = NoError THEN "remaining" ELSE "failed"
    /\ UNCHANGED <<tagi, nfiles, public, private, output, args_vars, owners_vars>>

\* main, line 308
WriteOutputArgs ==
    /\ pc = "remaining"
    /\ todo = {}
    /\ output' = Append(output, generate_csv(entries_dict))
    /\ passes' = Append(passes, "write")
    /\ call' = NoCall
    /\ pc' = "write"
    /\ UNCHANGED <<tagi, nfiles, public, private, entries_dict, args_vars, owners_vars>>

NextArgs ==
    \/ ApplyStrict
    \/ ApplyIgnoreConflicts
    \/ AssignRemainingArgs
    \/ WriteOutputArgs

SpecArgs == InitArgs /\ [][NextArgs]_vars

----------------------------------------------------------------------------

(* tools/owners/inactive.py: filter_inactive called directly, as              *)
(* inactive_test.py calls it, on a text of OWNERS lines and a list of active  *)
(* ldaps.  The ldaps of the texts hold letters only, so a reference used as   *)
(* a pattern holds no quantifier.                                             *)

\* the characters of the class [a-z\-+]
LdapChars == (Range(AsciiHigh) \ {"{", "|", "}", "~"}) \cup {"-", "+"}

\* the alternatives of (?:android.com|google.com), in the order they are tried
RefDomains ==
    << <<"a", "n", "d", "r", "o", "i", "d", ".", "c", "o", "m">>,
       <<"g", "o", "o", "g", "l", "e", ".", "c", "o", "m">> >>

\* the pattern pat matches s from index i on: a dot of the pattern matches every
\* character but a newline, every other character of pat matches itself
MatchesAt(pat, s, i) ==
    /\ i + Len(pat) - 1 <= Len(s)
    /\ \A k \in 1..Len(pat) :
          IF pat[k] = "." THEN s[i + k - 1] # "\n" ELSE s[i + k - 1] = pat[k]

\* the index behind the longest run of [a-z\-+] that starts at i
RECURSIVE RunEnd(_, _)
RunEnd(s, i) == IF i <= Len(s) /\ s[i] \in LdapChars THEN RunEnd(s, i + 1) ELSE i

\* the index behind the match of [a-z\-+]+@(?:android.com|google.com) that starts
\* at i, or 0 when none starts there ("@" is not in the class, so only the longest
\* run can be followed by it)
RefEnd(s, i) ==
    LET e == RunEnd(s, i)
    IN  IF e = i \/ e > Len(s) \/ s[e] # "@" THEN 0
        ELSE IF MatchesAt(RefDomains[1], s, e + 1) THEN e + 1 + Len(RefDomains[1])
        ELSE IF MatchesAt(RefDomains[2], s, e + 1) THEN e + 1 + Len(RefDomains[2])
        ELSE 0

\* the least index of a non-empty set of indices
First(S) == CHOOSE i \in S : \A j \in S : i <= j

\* re.findall(r"([a-z\-+]+@(?:android.com|google.com))", s) from index i on: the
\* matches from left to right, each search starting behind the match before it
RECURSIVE FindallFrom(_, _)
FindallFrom(s, i) ==
    LET starts == {j \in i..Len(s) : RefEnd(s, j) # 0}
    IN  IF starts = {} THEN <<>>
        ELSE <<SubSeq(s, First(starts), RefEnd(s, First(starts)) - 1)>>
                \o FindallFrom(s, RefEnd(s, First(starts)))

findall(line) == FindallFrom(line, 1)

\* re.sub(r"%s,? ?" % (ref), "", s) from index i on: every match of ref from left
\* to right, with the comma and the blank that may follow it, is left out, each
\* search starting behind the match before it
RECURSIVE SubFrom(_, _, _)
SubFrom(ref, s, i) ==
    LET starts == {m \in i..Len(s) : MatchesAt(ref, s, m)}
        j == First(starts) + Len(ref)
        k == IF j <= Len(s) /\ s[j] = "," THEN j + 1 ELSE j
        l == IF k <= Len(s) /\ s[k] = " " THEN k + 1 ELSE k
    IN  IF starts = {} THEN SubSeq(s, i, Len(s))
        ELSE SubSeq(s, i, First(starts) - 1) \o SubFrom(ref, s, l)

sub(ref, line) == SubFrom(ref, line, 1)

\* ref[0:ref.index("@")]
LdapOf(ref) == SubSeq(ref, 1, (CHOOSE i \in 1..Len(ref) : ref[i] = "@" /\ \A j \in 1..(i - 1) : ref[j] # "@") - 1)

\* the loop over refs: line after the references to inactive ldaps were taken out
RECURSIVE RemoveInactive(_, _, _)
RemoveInactive(refs, line, active_ldaps_) ==
    IF refs = <<>> THEN line
    ELSE RemoveInactive(Tail(refs),
                        IF LdapOf(Head(refs)) \notin active_ldaps_ THEN sub(Head(refs), line)
                        ELSE line,
                        active_ldaps_)

\* raw.split("\n"): the pieces between the newlines, the start and the end of raw
SplitLines(raw) ==
    LET cuts == {i \in 1..Len(raw) : raw[i] = "\n"} \cup {0, Len(raw) + 1}
        cut(k) == CHOOSE i \in cuts : Cardinality({j \in cuts : j < i}) = k
    IN  [k \in 1..(Cardinality(cuts) - 1) |-> SubSeq(raw, cut(k - 1) + 1, cut(k) - 1)]

PerFile == <<"p", "e", "r", "-", "f", "i", "l", "e", " ">>

\* the body of the loop of filter_inactive: what one line adds to res
FilterLine(line, active_ldaps_) ==
    IF ~StartsWith(line, <<"#">>) /\ "@" \in Range(line)
    THEN LET removed == RemoveInactive(findall(line), line, active_ldaps_)
             trimmed ==
                 IF StartsWith(removed, PerFile)
                 THEN IF EndsWith(removed, <<",">>) THEN SubSeq(removed, 1, Len(removed) - 1)
                      ELSE IF EndsWith(removed, <<",", " ">>)
                      THEN SubSeq(removed, 1, Len(removed) - 2)
                      ELSE removed
                 ELSE removed
         IN  IF "@" \notin Range(trimmed) THEN <<>> ELSE <<trimmed>>
    ELSE <<line>>

RECURSIVE FilterLines(_, _)
FilterLines(lines, active_ldaps_) ==
    IF lines = <<>> THEN <<>>
    ELSE FilterLine(Head(lines), active_ldaps_) \o FilterLines(Tail(lines), active_ldaps_)

\* filter_inactive
filter_inactive(raw, active_ldaps_) == Join(<<"\n">>, FilterLines(SplitLines(raw), active_ldaps_))

\* the ldaps of inactive_test.py
LdapFoo == <<"f", "o", "o">>
LdapBar == <<"b", "a", "r">>
LdapBaz == <<"b", "a", "z">>
LdapFoobar == <<"f", "o", "o", "b", "a", "r">>

Ldaps == {LdapFoo, LdapBar, LdapBaz, LdapFoobar}

\* ldap@google.com
Ref(ldap) == ldap \o <<"@">> \o RefDomains[2]

StandaloneComment ==
    <<"#", " ", "S", "t", "a", "n", "d", "a", "l", "o", "n", "e", " ", "c",
      "o", "m", "m", "e", "n", "t">>

TrailingComment ==
    <<" ", "#", " ", "T", "r", "a", "i", "l", "i", "n", "g", " ", "c", "o",
      "m", "m", "e", "n", "t">>

PerFileRed ==
    <<"p", "e", "r", "-", "f", "i", "l", "e", " ", "R", "e", "d", ".", "j",
      "a", "v", "a", " ", "=", " ">>

PerFileBlue ==
    <<"p", "e", "r", "-", "f", "i", "l", "e", " ", "B", "l", "u", "e", ".",
      "j", "a", "v", "a", " ", "=", " ">>

FooExampleNet ==
    <<"f", "o", "o", "@", "e", "x", "a", "m", "p", "l", "e", ".", "n", "e",
      "t">>

\* the lines of TEST_INPUT, then lines that name foobar next to an ldap that is its
\* suffix, its prefix, or inside it, and a per-file line that ends with a comma
OwnersLines ==
    { Ref(LdapFoo),
      StandaloneComment,
      Ref(LdapBar) \o TrailingComment,
      PerFileRed \o Ref(LdapFoo),
      PerFileBlue \o Ref(LdapFoo) \o <<",", " ">> \o Ref(LdapBar) \o <<",">> \o Ref(LdapBaz),
      Ref(LdapBaz),
      FooExampleNet,
      Ref(LdapFoobar),
      Ref(LdapFoobar) \o <<",", " ">> \o Ref(LdapBar),
      Ref(LdapFoo) \o <<",", " ">> \o Ref(LdapFoobar),
      Ref(<<"o", "b", "a">>) \o <<",", " ">> \o Ref(LdapFoobar),
      PerFileRed \o Ref(LdapFoo) \o <<",">> }

\* the texts: at most MaxLines different lines
OwnersTexts == {Join(<<"\n">>, file) : file \in FilesOf(OwnersLines, MaxLines)}

InitOwners ==
    /\ pc = "owners"
    /\ tagi = 0
    /\ nfiles = 0
    /\ public = <<>>
    /\ private = <<>>
    /\ entries_dict = <<>>
    /\ call = NoCall
    /\ passes = <<>>
    /\ output = <<>>
    /\ NoArgs
    /\ before \in OwnersTexts
    /\ active_ldaps \in SUBSET Ldaps
    /\ after = <<>>

CallFilterInactive ==
    /\ pc = "owners"
    /\ after' = filter_inactive(before, active_ldaps)
    /\ pc' = "filtered"
    /\ UNCHANGED <<tagi, nfiles, public, private, entries_dict, call, passes, output,
                   args_vars, before, active_ldaps>>

NextOwners == CallFilterInactive

SpecOwners == InitOwners /\ [][NextOwners]_vars

----------------------------------------------------------------------------

(* Properties *)

\* the key and the tags of a CSV line
RowKey(line) == Split(line)[1]
RowTags(line) == Range(Tail(Split(line)))

InRegistry(tag) == tag \in Range(TAGS)

\* C1: a call of assign_tag whose entries are not all keys of the dict fails, and
\* leaves every entry of the dict, those it names included, with the tags it had.
C1_StrictUnknownEntryFails ==
    [][ (call'.fn = "assign_tag" /\ ~(call'.entries \subseteq DOMAIN entries_dict))
            => (call'.err # NoError /\ entries_dict' = entries_dict) ]_vars

\* an assign_tag that failed on an unknown entry and also named a key that did
\* not hold the (known) tag
C1_Witness ==
    /\ call.fn = "assign_tag"
    /\ call.err = "check_entries_set"
    /\ InRegistry(call.tag)
    /\ \E e \in call.entries \cap DOMAIN entries_dict : call.tag \notin entries_dict[e]

\* C2: a call of parse_csv with a row whose entry is no key of the dict, or with a
\* row that has a tag outside TAGS, fails and changes no entry's tags.
C2_CsvAllOrNothing ==
    [][ (/\ call'.fn = "parse_csv"
         /\ \E i \in 1..Len(call'.lines) :
               \/ RowKey(call'.lines[i]) \notin DOMAIN entries_dict
               \/ ~(RowTags(call'.lines[i]) \subseteq Range(TAGS)))
            => (call'.err # NoError /\ entries_dict' = entries_dict) ]_vars

\* a parse_csv that failed on a row after a row that names a key and a known tag
\* the key does not hold
C2_Witness ==
    /\ call.fn = "parse_csv"
    /\ call.err # NoError
    /\ \E i, j \in 1..Len(call.lines) :
          /\ i < j
          /\ RowKey(call.lines[i]) \in DOMAIN entries_dict
          /\ RowTags(call.lines[i]) \subseteq Range(TAGS)
          /\ ~(RowTags(call.lines[i]) \subseteq entries_dict[RowKey(call.lines[i])])
          /\ \/ RowKey(call.lines[j]) \notin DOMAIN entries_dict
             \/ ~(RowTags(call.lines[j]) \subseteq Range(TAGS))

\* C3: an ignore-conflicts assignment of a tag T of TAGS with entries S does not
\* fail; a key in S without tags ends with exactly {T}, every other key keeps its
\* tags, and the keys are the same (no entry of S is added).
C3_IgnoreConflictsEffect ==
    [][ (call'.fn = "assign_tag_ignore_conflicts" /\ InRegistry(call'.tag))
            => /\ call'.err = NoError
               /\ DOMAIN entries_dict' = DOMAIN entries_dict
               /\ \A e \in DOMAIN entries_dict :
                     entries_dict'[e] =
                        IF e \in call'.entries /\ entries_dict[e] = {}
                        THEN {call'.tag} ELSE entries_dict[e] ]_vars

\* an ignore-conflicts assignment that named an unknown entry, a key it tagged and
\* a key it skipped
C3_Witness ==
    /\ call.fn = "assign_tag_ignore_conflicts"
    /\ call.err = NoError
    /\ call.entries \ DOMAIN entries_dict # {}
    /\ call.changed # {}
    /\ (call.entries \cap DOMAIN entries_dict) \ call.changed # {}

\* C4: when main() has written its output, every entry has at least one tag.
C4_NoUntaggedEntryInOutput ==
    output # <<>> => \A e \in DOMAIN entries_dict : entries_dict[e] # {}

\* a finished run with no input file besides the baseline, in which a private entry
\* got its only tag from the last assign_tag
C4_Witness ==
    /\ output # <<>>
    /\ passes = <<"serialization", "remaining", "write">>
    /\ \E e \in DOMAIN private : entries_dict[e] = {TAG_BLACKLIST}

\* C5: once an ignore-conflicts file has been processed, main() runs no
\* serialization pass, no CSV merge and no strict tag file.
C5_StrictBeforeIgnoreConflicts ==
    \A i, j \in 1..Len(passes) :
        (i < j /\ passes[i] = "ignore-conflicts")
            => passes[j] \notin {"serialization", "csv", "tag"}

\* a run that processed a strict tag file and then an ignore-conflicts file
C5_Witness ==
    \E i, j \in 1..Len(passes) :
        i < j /\ passes[i] = "tag" /\ passes[j] = "ignore-conflicts"

\* C6: a call of assign_tag with a tag T of TAGS and entries S that are all keys
\* succeeds; every key in S ends with its tags and T, every other key keeps its tags.
C6_StrictAddsTag ==
    [][ (/\ call'.fn = "assign_tag"
         /\ InRegistry(call'.tag)
         /\ call'.entries \subseteq DOMAIN entries_dict)
            => /\ call'.err = NoError
               /\ DOMAIN entries_dict' = DOMAIN entries_dict
               /\ \A e \in DOMAIN entries_dict :
                     entries_dict'[e] =
                        IF e \in call'.entries THEN entries_dict[e] \cup {call'.tag}
                        ELSE entries_dict[e] ]_vars

\* an assign_tag that gave an entry a second tag and left a tagged entry alone
C6_Witness ==
    /\ call.fn = "assign_tag"
    /\ call.err = NoError
    /\ \E e \in call.changed : Cardinality(entries_dict[e]) >= 2
    /\ \E e \in (DOMAIN entries_dict) \ call.entries : entries_dict[e] # {}

\* C7: right after the bootstrap the keys of entries_dict are the public and the
\* private entries, a public entry has exactly the whitelist tag and a private
\* entry has no tag.
C7_Bootstrap ==
    pc = "bootstrap" =>
        /\ DOMAIN entries_dict = (DOMAIN public) \cup (DOMAIN private)
        /\ \A e \in DOMAIN public : entries_dict[e] = {TAG_WHITELIST}
        /\ \A e \in DOMAIN private : entries_dict[e] = {}

\* a bootstrap from a public and a private file that both hold entries
C7_Witness ==
    pc = "bootstrap" /\ DOMAIN public # {} /\ DOMAIN private # {}

\* C8: when the public and the private entries overlap, main() fails in the
\* bootstrap: entries_dict is never bound, no pass runs, nothing is written.
C8_OverlapFails ==
    (DOMAIN public) \cap (DOMAIN private) # {} =>
        /\ pc = "failed"
        /\ DOMAIN entries_dict = {}
        /\ passes = <<>>
        /\ output = <<>>

\* a run whose public and private files share an entry and differ in another
C8_Witness ==
    /\ (DOMAIN public) \cap (DOMAIN private) # {}
    /\ DOMAIN public # DOMAIN private
    /\ call.fn = "merge_two_disjoint_dicts"

\* C9: no pass after the bootstrap, failing or not, changes the keys of entries_dict.
C9_KeysFixed ==
    [][ pc # "start" => DOMAIN entries_dict' = DOMAIN entries_dict ]_vars

\* after a CSV merge, an ignore-conflicts file that names an entry that is no key
\* and tags another
C9_Witness ==
    /\ "csv" \in Range(passes)
    /\ call.fn = "assign_tag_ignore_conflicts"
    /\ call.entries \ DOMAIN entries_dict # {}
    /\ call.changed # {}

\* the last call was offered a tag that is not in TAGS
OfferedUnknownTag ==
    \/ call.fn \in {"assign_tag", "assign_tag_ignore_conflicts"} /\ ~InRegistry(call.tag)
    \/ call.fn = "parse_csv"
          /\ \E i \in 1..Len(call.lines) : ~(RowTags(call.lines[i]) \subseteq Range(TAGS))

\* C10: no entry ever holds a tag outside TAGS, and a call of assign_tag, of the
\* ignore-conflicts assignment or of parse_csv that is offered a tag outside TAGS
\* fails and changes nothing.
C10_OnlyRegistryTags ==
    /\ [](\A e \in DOMAIN entries_dict : entries_dict[e] \subseteq Range(TAGS))
    /\ [][ OfferedUnknownTag' => (call'.err # NoError /\ entries_dict' = entries_dict) ]_vars

\* a call that failed in check_tags_set although the entries it named are keys,
\* on a dict in which some entry holds a tag
C10_Witness ==
    /\ call.err = "check_tags_set"
    /\ OfferedUnknownTag
    /\ \E e \in DOMAIN entries_dict : entries_dict[e] # {}

\* C11: assign_tag is idempotent: for a dict, a tag of TAGS and entries that are all
\* keys, assign_tag on the result of assign_tag returns that result; a call
\* that repeats the successful call before it changes nothing, and no successful
\* call changes an entry that holds the tag already.
C11_StrictIdempotent ==
    /\ [](\A tag \in Range(TAGS), entries \in SUBSET DOMAIN entries_dict :
             LET once == assign_tag(tag, entries, entries_dict)
                 twice == assign_tag(tag, entries, once.d)
             IN  once.err = NoError /\ twice.err = NoError /\ twice.d = once.d)
    /\ [][ (call'.fn = "assign_tag" /\ call'.err = NoError)
              => /\ \A e \in call'.entries :
                       call'.tag \in entries_dict[e] => entries_dict'[e] = entries_dict[e]
                 /\ (/\ call.fn = "assign_tag"
                     /\ call.err = NoError
                     /\ call.tag = call'.tag
                     /\ call.entries = call'.entries) => entries_dict' = entries_dict ]_vars

\* a successful assign_tag on entries that all hold the tag, one of them with
\* another tag as well
C11_Witness ==
    /\ call.fn = "assign_tag"
    /\ call.err = NoError
    /\ call.entries # {}
    /\ call.changed = {}
    /\ \E e \in call.entries : Cardinality(entries_dict[e]) >= 2

\* the line generate_csv writes for an entry with the single tag
LineOf(api, tag) == api \o <<",">> \o tag \o <<"\n">>

\* the fields of an output line without its newline: the entry, then its tags
Fields(line) == Split(SubSeq(line, 1, Len(line) - 1))

\* s is a proper prefix of t
ProperPrefix(s, t) == Len(s) < Len(t) /\ SubSeq(t, 1, Len(s)) = s

\* the tags of l are in strictly ascending order
Ascending(l) == \A i, j \in 1..Len(l) : i < j => StrLess(l[i], l[j])

\* every line of the output ends with a newline and holds an entry of the dict
\* followed by the tags of that entry in ascending order; every entry has a line
OneLinePerEntry(lines) ==
    /\ Len(lines) = Cardinality(DOMAIN entries_dict)
    /\ \A i \in 1..Len(lines) :
          /\ lines[i][Len(lines[i])] = "\n"
          /\ Fields(lines[i])[1] \in DOMAIN entries_dict
          /\ Range(Tail(Fields(lines[i]))) = entries_dict[Fields(lines[i])[1]]
          /\ Ascending(Tail(Fields(lines[i])))
    /\ \A e \in DOMAIN entries_dict : \E i \in 1..Len(lines) : Fields(lines[i])[1] = e

\* C12 as stated: generate_csv returns one line per entry, the entry followed by
\* its tags in ascending order, and the lines are in ascending order of their
\* entries.
C12_LinesInEntryOrder ==
    output # <<>>
        => /\ OneLinePerEntry(output[1])
           /\ \A i, j \in 1..Len(output[1]) :
                 i < j => StrLess(Fields(output[1][i])[1], Fields(output[1][j])[1])

\* C12, amended: generate_csv returns one line per entry, the entry followed by
\* its tags in ascending order, and the lines are in ascending order of the lines
\* themselves; the entries of two lines are in ascending order too, unless the
\* entry of the later line holds a tag and is a proper prefix of the entry of the
\* earlier line, which goes on with a character below the comma.
C12_LinesInLineOrder ==
    output # <<>>
        => /\ OneLinePerEntry(output[1])
           /\ \A i, j \in 1..Len(output[1]) :
                 i < j =>
                    LET a == Fields(output[1][i])[1]
                        b == Fields(output[1][j])[1]
                    IN  /\ StrLess(output[1][i], output[1][j])
                        /\ \/ StrLess(a, b)
                           \/ /\ ProperPrefix(b, a)
                              /\ entries_dict[b] # {}
                              /\ Ord(a[Len(b) + 1]) < Ord(",")

\* the output for a dict in which A holds a tag, its nested class A$B is a key,
\* an entry holds no tag and an entry holds two
C12_Witness ==
    /\ output # <<>>
    /\ {SigA, SigA_B} \subseteq DOMAIN entries_dict
    /\ entries_dict[SigA] # {}
    /\ \E e \in DOMAIN entries_dict : entries_dict[e] = {}
    /\ \E e \in DOMAIN entries_dict : Cardinality(entries_dict[e]) >= 2

\* the dict of line 281, which the passes start from
entries_dict_at_start == merge_two_disjoint_dicts(public, private).d

\* C13: a run that applies line 285, the CSV files and the strict tag files in any
\* order, then the ignore-conflicts files of each tag in any order, ends as main()
\* ends on the same command line: it fails iff main() fails, and it writes the
\* lines main() writes.
C13_OrderIndependent ==
    /\ pc = "write" => (main(entries_dict_at_start, args).err = NoError
                        /\ output = main(entries_dict_at_start, args).out)
    /\ pc = "failed" => (main(entries_dict_at_start, args).err # NoError /\ output = <<>>)

\* a run that wrote its output after it applied a strict tag file before a CSV
\* file and the CSV file before line 285, and two ignore-conflicts files
C13_Witness ==
    /\ pc = "write"
    /\ Len(passes) >= 3
    /\ passes[1] = "tag"
    /\ passes[2] = "csv"
    /\ passes[3] = "serialization"
    /\ \E e \in DOMAIN entries_dict : Cardinality(entries_dict[e]) >= 2

\* the three lines of the example
ExampleOutput ==
    <<LineOf(SigA, TAG_WHITELIST), LineOf(SigB, TAG_GREYLIST), LineOf(SigC, TAG_BLACKLIST)>>

\* the command line and the entries of the example
IsExample ==
    /\ DOMAIN public = {SigA}
    /\ DOMAIN private = {SigB, SigC}
    /\ Range(args) = ExampleOptions

\* C14: with the public entry A, the private entries B and C, an empty whitelist
\* file, a greylist file naming B and a blacklist-ignore-conflicts file naming C
\* and D, no pass fails and the output is the three lines A,whitelist /
\* B,greylist / C,blacklist, in this order.
C14_Example ==
    IsExample => /\ pc # "failed"
                 /\ pc = "write" => output = <<ExampleOutput>>
                 /\ SigD \notin DOMAIN entries_dict

\* the run of the example, its passes in program order, wrote its output
C14_Witness ==
    /\ IsExample
    /\ pc = "write"
    /\ passes = <<"serialization", "tag", "tag", "ignore-conflicts", "remaining", "write">>
    /\ output = <<ExampleOutput>>

\* C15: a run with no CSV, strict or ignore-conflicts file that wrote its output
\* left every public entry with exactly the whitelist tag and every private entry
\* that does not match SERIALIZATION_REGEX with exactly the blacklist tag; the
\* output of such a run for one private entry and no public entry is the line of
\* that entry with the blacklist tag.
C15_NoFilesDefault ==
    (pc = "write" /\ passes = <<"serialization", "remaining", "write">>)
        => /\ \A e \in DOMAIN public : entries_dict[e] = {TAG_WHITELIST}
           /\ \A e \in DOMAIN private :
                 ~SERIALIZATION_REGEX(e) => entries_dict[e] = {TAG_BLACKLIST}
           /\ \A x \in DOMAIN private :
                 (DOMAIN public = {} /\ DOMAIN private = {x} /\ ~SERIALIZATION_REGEX(x))
                     => output = << <<LineOf(x, TAG_BLACKLIST)>> >>

\* the run of the example: no public entry, the private entry A, no other file
C15_Witness ==
    /\ pc = "write"
    /\ passes = <<"serialization", "remaining", "write">>
    /\ DOMAIN public = {}
    /\ DOMAIN private = {SigA}
    /\ output = << <<LineOf(SigA, TAG_BLACKLIST)>> >>

\* C16: the output is written at most once, by the last statement of a run in
\* which no call failed; a failed merge of the two dicts or a failed pass ends the
\* run with no output, and nothing executes after it.
C16_OutputOnlyAfterSuccess ==
    /\ [](/\ Len(output) <= 1
          /\ call.err # NoError => (pc = "failed" /\ output = <<>>)
          /\ pc = "failed" => output = <<>>
          /\ output # <<>> => (pc = "write" /\ passes[Len(passes)] = "write"))
    /\ [][ /\ call.err = NoError
           /\ pc \notin {"failed", "write"}
           /\ output' # output => (output = <<>> /\ pc' = "write") ]_vars

\* a run that failed in its third pass or later
C16_Witness ==
    /\ pc = "failed"
    /\ Len(passes) >= 3
    /\ call.err # NoError
    /\ output = <<>>

\* C17: the pass of line 285 is the first pass of a run; it adds the whitelist tag
\* to the entries whose signature matches SERIALIZATION_REGEX and changes no other
\* entry.  From then on every matching entry holds the whitelist tag, no
\* ignore-conflicts pass changes it and the pass of line 305 does not change it.
C17_SerializationFirst ==
    /\ passes # <<>>
          => /\ passes[1] = "serialization"
             /\ \A e \in DOMAIN entries_dict :
                   SERIALIZATION_REGEX(e) => TAG_WHITELIST \in entries_dict[e]
    /\ pc = "serialization"
          => /\ passes = <<"serialization">>
             /\ DOMAIN entries_dict = DOMAIN entries_dict_at_start
             /\ \A e \in DOMAIN entries_dict :
                   entries_dict[e] =
                      IF SERIALIZATION_REGEX(e)
                      THEN entries_dict_at_start[e] \cup {TAG_WHITELIST}
                      ELSE entries_dict_at_start[e]
    /\ (call.fn = "assign_tag_ignore_conflicts" \/ pc = "remaining")
          => \A e \in call.changed : ~SERIALIZATION_REGEX(e)

\* an ignore-conflicts file that named a private entry matching the regex and
\* tagged another entry
C17_Witness ==
    /\ call.fn = "assign_tag_ignore_conflicts"
    /\ call.changed # {}
    /\ \E e \in call.entries \cap DOMAIN private :
          SERIALIZATION_REGEX(e) /\ entries_dict[e] = {TAG_WHITELIST}

\* C18: the pass of line 305 comes after every other pass and right before the
\* output is written; it gives the blacklist tag to the entries without a tag and
\* leaves every entry that holds a tag as it is.
C18_CatchAllLast ==
    /\ [](\A i \in 1..Len(passes) :
             passes[i] = "remaining"
                => \/ i = Len(passes)
                   \/ i + 1 = Len(passes) /\ passes[i + 1] = "write")
    /\ [][ /\ pc' = "remaining"
              => /\ call'.err = NoError
                 /\ DOMAIN entries_dict' = DOMAIN entries_dict
                 /\ \A e \in DOMAIN entries_dict :
                       entries_dict'[e] =
                          IF entries_dict[e] = {} THEN {TAG_BLACKLIST} ELSE entries_dict[e]
           /\ pc = "remaining" => (pc' = "write" /\ entries_dict' = entries_dict)
           /\ pc' = "write" => pc = "remaining" ]_vars

\* after an ignore-conflicts file, the pass of line 305 tagged an entry and left
\* alone an entry that holds the greylist tag
C18_Witness ==
    /\ pc = "remaining"
    /\ "ignore-conflicts" \in Range(passes)
    /\ call.changed # {}
    /\ \E e \in (DOMAIN entries_dict) \ call.changed : TAG_GREYLIST \in entries_dict[e]

\* C19: a parse_csv that succeeds leaves every entry with the tags it had and the
\* tags of all the rows that name it: an entry that no row names, that only rows
\* without tags name, or whose rows hold only tags it has already, keeps its tags.
C19_CsvMergeUnion ==
    [][ (call'.fn = "parse_csv" /\ call'.err = NoError)
           => /\ DOMAIN entries_dict' = DOMAIN entries_dict
              /\ \A e \in DOMAIN entries_dict :
                    entries_dict'[e] =
                       entries_dict[e] \cup
                       UNION {RowTags(call'.lines[i]) :
                                 i \in {j \in 1..Len(call'.lines) : RowKey(call'.lines[j]) = e}} ]_vars

\* a successful parse_csv of a row without tags and a row that added a tag to an
\* entry which held another one
C19_Witness ==
    /\ call.fn = "parse_csv"
    /\ call.err = NoError
    /\ \E i \in 1..Len(call.lines) : RowTags(call.lines[i]) = {}
    /\ \E e \in call.changed : TAG_WHITELIST \in entries_dict[e]
                                  /\ Cardinality(entries_dict[e]) >= 2
    /\ \E e \in DOMAIN entries_dict : \A i \in 1..Len(call.lines) : RowKey(call.lines[i]) # e

\* the references of the lines of text that filter_inactive looks at
RefsOf(text) ==
    UNION {Range(findall(line)) :
              line \in {l \in Range(SplitLines(text)) : ~StartsWith(l, <<"#">>)}}

\* C20 as stated: every reference to an active ldap in a line of the input that is
\* no comment is a reference of the output, and when every such reference is to an
\* active ldap the output is the input.
C20_ActiveRefsKept ==
    pc = "filtered"
        => /\ \A ref \in RefsOf(before) :
                 LdapOf(ref) \in active_ldaps => ref \in RefsOf(after)
           /\ (\A ref \in RefsOf(before) : LdapOf(ref) \in active_ldaps) => after = before

\* C21: no step of main() takes a tag from an entry: after every step each entry
\* holds the tags it held before, so the tags of a later state include those of
\* every earlier state.  From the bootstrap on a public entry holds the whitelist
\* tag, and its line of the output names that tag, whatever else the entry was given.
C21_TagsOnlyGrow ==
    /\ [][ \A e \in DOMAIN entries_dict :
              e \in DOMAIN entries_dict' /\ entries_dict[e] \subseteq entries_dict'[e] ]_vars
    /\ [](\A e \in (DOMAIN public) \cap (DOMAIN entries_dict) :
             /\ TAG_WHITELIST \in entries_dict[e]
             /\ pc = "write" => \E i \in 1..Len(output[1]) :
                                   /\ Fields(output[1][i])[1] = e
                                   /\ TAG_WHITELIST \in Range(Tail(Fields(output[1][i]))))

\* the output of a run with no CSV file in which a strict tag file gave the
\* blacklist tag to a public entry
C21_Witness ==
    /\ pc = "write"
    /\ "csv" \notin Range(passes)
    /\ "tag" \in Range(passes)
    /\ \E e \in DOMAIN public : {TAG_WHITELIST, TAG_BLACKLIST} \subseteq entries_dict[e]

\* the entries a text file option names
Listed(o) == Range(read_lines(o.file))

\* lines 285-292 of main() on the command line args: the error of the statement
\* that failed and the dict when the loop of the strict tag files ends
StrictPhase ==
    LET serialization ==
            assign_tag(TAG_WHITELIST,
                       filter_dict_keys("IS_SERIALIZATION", entries_dict_at_start),
                       entries_dict_at_start)
    IN  RunOptions(SelectSeq(args, LAMBDA o : o.opt = "csv") \o ByTag("tag", 1, args),
                   serialization.d)

\* the run is past line 292 and no statement failed
StrictPhaseOver ==
    /\ pc \in {"serialization", "csv", "tag", "ignore-conflicts", "remaining", "write"}
    /\ \A j \in todo : j # 0 /\ args[j].opt = "ignore-conflicts"

\* C22: an entry without a tag when the strict phase ends never holds two tags
\* afterwards and holds exactly one when the output is written, which names that
\* one tag: an ignore-conflicts pass gives its tag to the entries it lists that
\* hold no tag and changes no other entry, and line 305 gives the blacklist tag to
\* the entries that still hold none.
C22_OneTagForUntagged ==
    /\ [](StrictPhaseOver
             => \A e \in DOMAIN entries_dict :
                   StrictPhase.d[e] = {}
                      => /\ Cardinality(entries_dict[e]) <= 1
                         /\ pc \in {"remaining", "write"} => Cardinality(entries_dict[e]) = 1
                         /\ pc = "write"
                               => \E i \in 1..Len(output[1]) :
                                     /\ Fields(output[1][i])[1] = e
                                     /\ Len(Fields(output[1][i])) = 2)
    /\ [][ /\ (StrictPhaseOver /\ todo' # todo)
              => LET o == args[CHOOSE i \in todo : i \notin todo']
                 IN  \A e \in DOMAIN entries_dict :
                        entries_dict'[e] =
                           IF e \in Listed(o) /\ entries_dict[e] = {} THEN {TAGS[o.t]}
                           ELSE entries_dict[e]
           /\ (StrictPhaseOver /\ pc' = "remaining")
              => \A e \in DOMAIN entries_dict :
                    entries_dict'[e] =
                       IF entries_dict[e] = {} THEN {TAG_BLACKLIST} ELSE entries_dict[e] ]_vars

\* the output of a run in which two ignore-conflicts files of different tags
\* listed an entry that held no tag after the strict phase, and line 305 tagged
\* another such entry
C22_Witness ==
    /\ pc = "write"
    /\ \E e \in DOMAIN entries_dict :
          /\ StrictPhase.d[e] = {}
          /\ \E o1, o2 \in Range(args) :
                /\ o1.opt = "ignore-conflicts" /\ o2.opt = "ignore-conflicts"
                /\ o1.t # o2.t
                /\ e \in Listed(o1) \cap Listed(o2)
    /\ \E e \in DOMAIN entries_dict :
          /\ StrictPhase.d[e] = {}
          /\ entries_dict[e] = {TAG_BLACKLIST}
          /\ \A o \in Range(args) : o.opt = "ignore-conflicts" => e \notin Listed(o)

\* the ignore-conflicts options of args that list e
ListingIgnoreConflicts(e) ==
    {o \in Range(args) : o.opt = "ignore-conflicts" /\ e \in Listed(o)}

\* C23: once the ignore-conflicts loop is over, an entry that held no tag after the
\* strict phase and that ignore-conflicts files list holds the tag, among the tags
\* of these files, that comes first in TAGS and no other tag, wherever the files
\* stand on the command line.
C23_RegistryPrecedence ==
    (StrictPhaseOver /\ pc \in {"remaining", "write"})
        => \A e \in DOMAIN entries_dict :
              (StrictPhase.d[e] = {} /\ ListingIgnoreConflicts(e) # {})
                 => \E o \in ListingIgnoreConflicts(e) :
                       /\ \A p \in ListingIgnoreConflicts(e) : o.t <= p.t
                       /\ entries_dict[e] = {TAGS[o.t]}

\* the output of a run whose command line names an ignore-conflicts file of a later
\* tag before one of an earlier tag, both listing an entry without a tag after the
\* strict phase; the two assignments in the other order leave another dict
C23_Witness ==
    /\ pc = "write"
    /\ \E i, j \in 1..Len(args) :
          /\ i < j
          /\ args[i].opt = "ignore-conflicts" /\ args[j].opt = "ignore-conflicts"
          /\ args[i].t > args[j].t
          /\ \E e \in Listed(args[i]) \cap Listed(args[j]) \cap DOMAIN entries_dict :
                /\ StrictPhase.d[e] = {}
                /\ entries_dict[e] = {TAGS[args[j].t]}
          /\ RunOptions(<<args[i], args[j]>>, StrictPhase.d).d
                # RunOptions(<<args[j], args[i]>>, StrictPhase.d).d

====
